---- MODULE Spec2Model ----
(***************************************************************************)
(* A model of the k-minimum-values sketch of kmh.h: the hash function, the *)
(* sketch operations (kmh_init, kmh_free, kmh_add, kmh_cardinality,        *)
(* kmh_merge, kmh_distance), the instance pool and the buffer pool, and    *)
(* the codec (kmh_serialize, kmh_deserialize,                              *)
(* kmh_cardinality_from_serialized).                                       *)
(*                                                                         *)
(* Source line numbers refer to src/src/bench.c, which carries kmh.h from  *)
(* line 87 on.                                                             *)
(***************************************************************************)
EXTENDS Integers, Sequences, FiniteSets, TLC

(***************************************************************************)
(* Program constants.                                                      *)
(***************************************************************************)
MAX_INSTANCES == 4
MAX_K == 1024
MAX_SERIALIZE_BUFFERS == 4

(***************************************************************************)
(* uint32_t arithmetic.  TLC's integers are 32-bit signed, so a uint32_t   *)
(* of the hash chain is kept as <<hi, lo>>, its two 16-bit halves, and     *)
(* every operation wraps modulo 2^32 as C's unsigned arithmetic does.      *)
(***************************************************************************)
W16 == 65536

U32(hi, lo) == <<hi, lo>>

\* a small non-negative integer (below 2^31) as a uint32_t
ToU32(n) == <<(n \div W16) % W16, n % W16>>

\* a uint32_t below 2^31 as an integer
FromU32(a) == a[1] * W16 + a[2]

\* a < b
U32Less(a, b) == a[1] < b[1] \/ (a[1] = b[1] /\ a[2] < b[2])

\* a + b, wrapping
U32Add(a, b) ==
    LET lo == a[2] + b[2]
        hi == a[1] + b[1] + (lo \div W16)
    IN  <<hi % W16, lo % W16>>

\* a * c for a multiplier c below 256, wrapping
U32MulByte(a, c) ==
    LET lo == a[2] * c
        hi == a[1] * c + (lo \div W16)
    IN  <<hi % W16, lo % W16>>

\* a << 8, wrapping
U32Shl8(a) == <<((a[1] * 256) % W16) + (a[2] \div 256), (a[2] * 256) % W16>>

\* a * b, wrapping: b is taken a byte at a time, lowest byte first
U32Mul(a, b) ==
    LET b0 == b[2] % 256
        b1 == b[2] \div 256
        b2 == b[1] % 256
        b3 == b[1] \div 256
        s1 == U32Shl8(a)
        s2 == U32Shl8(s1)
        s3 == U32Shl8(s2)
    IN  U32Add(U32Add(U32MulByte(a, b0), U32MulByte(s1, b1)),
               U32Add(U32MulByte(s2, b2), U32MulByte(s3, b3)))

RECURSIVE Pow2(_)
Pow2(n) == IF n = 0 THEN 1 ELSE 2 * Pow2(n - 1)

\* a >> n for 0 < n <= 16
U32Shr(a, n) ==
    IF n = 16 THEN <<0, a[1]>>
    ELSE <<a[1] \div Pow2(n),
           (a[2] \div Pow2(n)) + (a[1] % Pow2(n)) * Pow2(16 - n)>>

\* bitwise exclusive or of two 16-bit halves
RECURSIVE Xor16(_, _, _)
Xor16(x, y, bits) ==
    IF bits = 0 THEN 0
    ELSE ((x + y) % 2) + 2 * Xor16(x \div 2, y \div 2, bits - 1)

U32Xor(a, b) == <<Xor16(a[1], b[1], 16), Xor16(a[2], b[2], 16)>>

\* a mod m, for a modulus m small enough that m * m stays below 2^31
U32Mod(a, m) == ((a[1] % m) * (W16 % m) + (a[2] % m)) % m

XXH_PRIME32_2 == U32(34283, 51831)
XXH_PRIME32_3 == U32(49842, 44605)
XXH_PRIME32_4 == U32(10196, 60207)
XXH_PRIME32_5 == U32(5718, 26545)

\* (x << r) | (x >> (32 - r)), for the one rotation the hash makes, r = 17:
\* the halves swap (r = 16) and the word then rotates left by one more bit
xxh32_rotl(x, r) ==
    LET hi == x[2]
        lo == x[1]
    IN  <<((hi * 2) % W16) + (lo \div 32768), ((lo * 2) % W16) + (hi \div 32768)>>

xxh32_hash(input, seed) ==
    LET h0 == U32Add(U32Add(ToU32(seed), XXH_PRIME32_5), ToU32(4))
        h1 == U32Add(h0, U32Mul(ToU32(input), XXH_PRIME32_3))
        h2 == U32Mul(xxh32_rotl(h1, 17), XXH_PRIME32_4)
        h3 == U32Xor(h2, U32Shr(h2, 15))
        h4 == U32Mul(h3, XXH_PRIME32_2)
        h5 == U32Xor(h4, U32Shr(h4, 13))
        h6 == U32Mul(h5, XXH_PRIME32_3)
    IN  U32Xor(h6, U32Shr(h6, 16))

(***************************************************************************)
(* Bounds of the model.                                                    *)
(***************************************************************************)
\* kmh_add draws its values from 0..NumValues-1
NumValues == 6
\* the small capacities sketches are created with are 1..MaxSmallK
MaxSmallK == 3

Values == 0 .. (NumValues - 1)
Seeds == {42, 43}
Spaces == {7, 8}
\* capacities: the small ones, one above the pool's slot size, and one above
\* the bound kmh_deserialize accepts
Capacities == (1 .. MaxSmallK) \cup {MAX_K + 1, MAX_K * 10 + 1}

Slots == 0 .. (MAX_INSTANCES - 1)
Buffers == 0 .. (MAX_SERIALIZE_BUFFERS - 1)
\* where a kvalue_minhash_t lives: a pool slot, or HEAP for a malloc'd one
HEAP == MAX_INSTANCES
Regs == {"a", "b", "r"}

VARIABLES
    sizeof_ptr,  \* sizeof(uint32_t*) of the build: 4 or 8
    in_use,      \* kmh_pool[i].in_use
    busy,        \* kmh_buffer_pool[i].busy
    kmh,         \* the caller's kvalue_minhash_t pointers, with what they point to
    seen,        \* per pointer, the hashes kmh_add has computed for it (history)
    blob,        \* the caller's serialized buffer
    ret,         \* what the last call returned
    thread       \* per pointer, where the thread that owns it is in kmh_init

vars == <<sizeof_ptr, in_use, busy, kmh, seen, blob, ret, thread>>

NULL == [at |-> -1]
\* the NULL that comes from a failed malloc: the same pointer to the program,
\* told apart here so that a call's result says why it is NULL
NOMEM == [at |-> -2]
IsNull(p) == p = NULL \/ p = NOMEM

\* the hashes array as the program can observe it: cells 0..count-1
Prefix(arr, count) == [i \in 0 .. (count - 1) |-> arr[i]]
\* the array behind a sketch of capacity cap; a cell at or above count holds
\* whatever was there before and is written before it is read
Min(x, y) == IF x <= y THEN x ELSE y

\* the cells of the array behind a sketch of capacity cap that one call can
\* touch: 0..count, within the capacity.  The cell at count holds whatever
\* was there before; it is written before it is read.
Cells(hashes, count, cap) ==
    [i \in 0 .. (Min(cap, count + 1) - 1) |-> IF i < count THEN hashes[i] ELSE 0]

HashSet(s) == {s.hashes[i] : i \in 0 .. (s.count - 1)}

(***************************************************************************)
(* double results, as exact fractions num/den.  den = 0 is the result of a *)
(* division by zero.                                                       *)
(***************************************************************************)
Double(num, den) == [num |-> num, den |-> den]
DoubleEq(x, y) == x.num * y.den = y.num * x.den /\ (x.den = 0) = (y.den = 0)
MinusOne == Double(-1, 1)

\* what a call returned: its double (val), whether its pointer or length is
\* NULL or 0 (null), whether a malloc of the call failed (nomem), whether it
\* read past the end of its input (oob); for kmh_add, the hashes the call
\* put into the sketch (added) and took out of it (dropped); for kmh_merge
\* and kmh_distance, which of the caller's pointers it was given (args); for
\* a kmh_init that took the malloc path, the number of hashes the block it
\* asked for has room for after the struct (room)
\* For a function of the SQLite binding: whether it released a sketch or a
\* buffer it did not hold, or used one after releasing it (bad), and how many
\* sketches and buffers it still held, outside the aggregate context, when
\* it returned (leak).
NoRet == [op |-> "none", val |-> Double(0, 1), null |-> FALSE, nomem |-> FALSE,
          oob |-> FALSE, added |-> {}, dropped |-> {}, args |-> << >>, room |-> 0,
          bad |-> FALSE, leak |-> 0]
RetVal(op, val) == [NoRet EXCEPT !.op = op, !.val = val]
RetPtr(op, null, nomem) == [NoRet EXCEPT !.op = op, !.null = null, !.nomem = nomem]

(***************************************************************************)
(* kmh_init, lines 147-175.  cas_fail is the set of slots at which the     *)
(* weak compare-exchange fails although the slot is free; oom says         *)
(* whether malloc returns NULL.  The result is the pointer returned (p,    *)
(* with the struct it points to, at the slot it claimed or at HEAP) and    *)
(* the pool's markers after the call (used).                               *)
(***************************************************************************)
\* a mutant of atomic_compare_exchange_weak: the exchange without the compare
atomic_compare_exchange_weak_Blind(obj, expected, spurious) == ~spurious

\* line 151: whether the exchange takes place; the weak form may fail
\* (spurious) although obj = expected
atomic_compare_exchange_weak(obj, expected, spurious) == obj = expected /\ ~spurious

ClaimableSlots(k, used, cas_fail) ==
    IF k <= MAX_K
    THEN {i \in Slots : atomic_compare_exchange_weak(used[i], 0, i \in cas_fail)}
    ELSE {}

\* lines 153-158 and 167-173: the struct as kmh_init fills it in
NewSketch(at, k, space_size, seed) ==
    [at |-> at, k |-> k, count |-> 0, space_size |-> space_size,
     seed |-> seed, hashes |-> Prefix(<< >>, 0)]

FirstOf(S) == CHOOSE i \in S : \A j \in S : i <= j

kmh_init(k, space_size, seed, used, cas_fail, oom) ==
    LET free == ClaimableSlots(k, used, cas_fail)
        fresh(at) == NewSketch(at, k, space_size, seed)
    IN  IF free # {}
        THEN [p |-> fresh(FirstOf(free)), used |-> [used EXCEPT ![FirstOf(free)] = 1]]
        ELSE IF oom THEN [p |-> NOMEM, used |-> used]
        ELSE [p |-> fresh(HEAP), used |-> used]

\* a mutant of kmh_free: the atomic_store of line 184 is missing
kmh_free_NoStore(used, p) == used

\* kmh_free, lines 177-189: the pool's markers after the call
kmh_free(used, p) ==
    IF IsNull(p) THEN used
    ELSE IF p.at \in Slots THEN [used EXCEPT ![p.at] = 0]
    ELSE used

\* the caller's pointers after a call stored p in dst: a pointer to the pool
\* slot p lives in sees what the call wrote there
Store(kmhv, dst, p) ==
    [reg \in Regs |->
        IF reg = dst THEN (IF IsNull(p) THEN NULL ELSE p)
        ELSE IF ~IsNull(p) /\ p.at \in Slots /\ kmhv[reg] # NULL /\ kmhv[reg].at = p.at
        THEN p
        ELSE kmhv[reg]]

(***************************************************************************)
(* kmh_add, lines 214-255.                                                 *)
(***************************************************************************)
\* xxh32_hash over the values and seeds of the model, computed once
HashTable == [value \in Values, seed \in Seeds |-> xxh32_hash(value, seed)]

\* xxh32_hash(value, kmh->seed) % kmh->space_size, line 215
HashOf(value, seed, space_size) == U32Mod(HashTable[value, seed], space_size)

\* a mutant of InsertLoop: the new hash is stored at the end, nothing moves up
InsertLoop_NoShift(arr, i, hash) == [arr EXCEPT ![i] = hash]

\* the insertion loop of lines 228-232 and 249-253
RECURSIVE InsertLoop(_, _, _)
InsertLoop(arr, i, hash) ==
    IF i > 0 /\ arr[i - 1] < hash
    THEN InsertLoop([arr EXCEPT ![i] = arr[i - 1]], i - 1, hash)
    ELSE [arr EXCEPT ![i] = hash]

\* a mutant of ShiftLeft: the memmove is missing, hashes[0] stays
ShiftLeft_Missing(arr, k) == arr

\* memmove(&hashes[0], &hashes[1], (k - 1) * sizeof(uint32_t)), line 245
ShiftLeft(arr, k) == [i \in DOMAIN arr |-> IF i < k - 1 THEN arr[i + 1] ELSE arr[i]]

\* a mutant of kmh_add_hash: the duplicate check of lines 218-222 is missing
kmh_add_hash_NoDupCheck(s, hash) ==
    LET arr == Cells(s.hashes, s.count, s.k)
    IN  IF s.count < s.k
        THEN [s EXCEPT !.hashes = Prefix(InsertLoop(arr, s.count, hash), s.count + 1),
                       !.count = s.count + 1]
        ELSE IF hash >= s.hashes[0] THEN s
        ELSE [s EXCEPT !.hashes = Prefix(InsertLoop(ShiftLeft(arr, s.k), s.k - 1, hash),
                                         s.count)]

\* lines 217-254, from the hash on
kmh_add_hash(s, hash) ==
    LET arr == Cells(s.hashes, s.count, s.k)
    IN  IF \E j \in 0 .. (s.count - 1) : s.hashes[j] = hash THEN s
        ELSE IF s.count < s.k
        THEN [s EXCEPT !.hashes = Prefix(InsertLoop(arr, s.count, hash), s.count + 1),
                       !.count = s.count + 1]
        ELSE IF hash >= s.hashes[0] THEN s
        ELSE [s EXCEPT !.hashes = Prefix(InsertLoop(ShiftLeft(arr, s.k), s.k - 1, hash),
                                         s.count)]

\* a mutant of kmh_add: a full sketch takes a new hash above its largest in
\* the place of its largest
kmh_add_TakesLarger(s, value) ==
    LET hash == HashOf(value, s.seed, s.space_size)
    IN  IF s.count = s.k /\ s.k > 0 /\ hash > s.hashes[0]
        THEN [s EXCEPT !.hashes[0] = hash]
        ELSE kmh_add_hash(s, hash)

\* kmh_add, lines 214-255
kmh_add(s, value) == kmh_add_hash(s, HashOf(value, s.seed, s.space_size))

\* a mutant of kmh_cardinality: the divisor is hashes[0], without the + 1
kmh_cardinality_NoPlusOne(s) ==
    IF s.count = 0 THEN Double(0, 1)
    ELSE IF s.count < s.k THEN Double(s.count, 1)
    ELSE Double(s.space_size * (s.k - 1), s.hashes[0])

\* kmh_cardinality, lines 258-266; hashes[0] + 1 is a uint32_t sum
kmh_cardinality(s) ==
    IF s.count = 0 THEN Double(0, 1)
    ELSE IF s.count < s.k THEN Double(s.count, 1)
    ELSE Double(s.space_size * (s.k - 1), FromU32(U32Add(ToU32(s.hashes[0]), ToU32(1))))

(***************************************************************************)
(* kmh_merge, lines 269-307.                                               *)
(***************************************************************************)
\* a mutant of Compatible: the seeds are not compared
Compatible_NoSeed(a, b) == a.k = b.k /\ a.space_size = b.space_size

\* the test of lines 270 and 311, negated
Compatible(a, b) == a.k = b.k /\ a.space_size = b.space_size /\ a.seed = b.seed

\* a mutant of MergeLoop: on equal values only the first cursor moves
RECURSIVE MergeLoop_KeepTie(_, _, _, _, _, _)
MergeLoop_KeepTie(a, b, i, j, out, k) ==
    IF ~(Len(out) < k /\ (i >= 0 \/ j >= 0)) THEN out
    ELSE IF i < 0 THEN MergeLoop_KeepTie(a, b, i, j - 1, Append(out, b.hashes[j]), k)
    ELSE IF j < 0 THEN MergeLoop_KeepTie(a, b, i - 1, j, Append(out, a.hashes[i]), k)
    ELSE IF a.hashes[i] <= b.hashes[j]
    THEN MergeLoop_KeepTie(a, b, i - 1, j, Append(out, a.hashes[i]), k)
    ELSE MergeLoop_KeepTie(a, b, i, j - 1, Append(out, b.hashes[j]), k)

\* the loop of lines 279-297: out is result->hashes[0..count), i and j the
\* two (signed) cursors
RECURSIVE MergeLoop(_, _, _, _, _, _)
MergeLoop(a, b, i, j, out, k) ==
    IF ~(Len(out) < k /\ (i >= 0 \/ j >= 0)) THEN out
    ELSE IF i < 0 THEN MergeLoop(a, b, i, j - 1, Append(out, b.hashes[j]), k)
    ELSE IF j < 0 THEN MergeLoop(a, b, i - 1, j, Append(out, a.hashes[i]), k)
    ELSE IF a.hashes[i] < b.hashes[j]
    THEN MergeLoop(a, b, i - 1, j, Append(out, a.hashes[i]), k)
    ELSE IF a.hashes[i] > b.hashes[j]
    THEN MergeLoop(a, b, i, j - 1, Append(out, b.hashes[j]), k)
    ELSE MergeLoop(a, b, i - 1, j - 1, Append(out, a.hashes[i]), k)

\* a mutant of ReverseLoop: the array stays as the merge loop left it
ReverseLoop_Missing(arr, idx, n) == arr

\* the swap loop of lines 300-304, on cells 0..n-1
RECURSIVE ReverseLoop(_, _, _)
ReverseLoop(arr, idx, n) ==
    IF idx < n \div 2
    THEN ReverseLoop([arr EXCEPT ![idx] = arr[n - 1 - idx],
                                 ![n - 1 - idx] = arr[idx]], idx + 1, n)
    ELSE arr

kmh_merge(a, b, used, cas_fail, oom) ==
    IF ~Compatible(a, b) THEN [p |-> NULL, used |-> used]
    ELSE LET result == kmh_init(a.k, a.space_size, a.seed, used, cas_fail, oom)
         IN  IF IsNull(result.p) THEN result
             ELSE LET out == MergeLoop(a, b, a.count - 1, b.count - 1, << >>,
                                       result.p.k)
                      n == Len(out)
                      arr == [i \in 0 .. (n - 1) |-> out[i + 1]]
                  IN  [result EXCEPT !.p.count = n,
                                     !.p.hashes = ReverseLoop(arr, 0, n)]

(***************************************************************************)
(* kmh_distance, lines 310-330.                                            *)
(***************************************************************************)
\* a mutant of DistanceLoop: equal hashes move both cursors but are not
\* counted as a match
RECURSIVE DistanceLoop_NoMatch(_, _, _, _, _, _)
DistanceLoop_NoMatch(a, b, i, j, matches, compared) ==
    IF ~(i < a.count /\ j < b.count /\ compared < a.k) THEN <<matches, compared>>
    ELSE IF a.hashes[i] = b.hashes[j]
    THEN DistanceLoop_NoMatch(a, b, i + 1, j + 1, matches, compared + 1)
    ELSE IF a.hashes[i] > b.hashes[j]
    THEN DistanceLoop_NoMatch(a, b, i + 1, j, matches, compared + 1)
    ELSE DistanceLoop_NoMatch(a, b, i, j + 1, matches, compared + 1)

\* the loop of lines 317-327; the result is <<matches, compared>>
RECURSIVE DistanceLoop(_, _, _, _, _, _)
DistanceLoop(a, b, i, j, matches, compared) ==
    IF ~(i < a.count /\ j < b.count /\ compared < a.k) THEN <<matches, compared>>
    ELSE IF a.hashes[i] = b.hashes[j]
    THEN DistanceLoop(a, b, i + 1, j + 1, matches + 1, compared + 1)
    ELSE IF a.hashes[i] > b.hashes[j]
    THEN DistanceLoop(a, b, i + 1, j, matches, compared + 1)
    ELSE DistanceLoop(a, b, i, j + 1, matches, compared + 1)

kmh_distance(a, b) ==
    IF ~Compatible(a, b) THEN MinusOne
    ELSE LET mc == DistanceLoop(a, b, 0, 0, 0, 0)
         IN  IF mc[2] > 0 THEN Double(mc[2] - mc[1], mc[2]) ELSE Double(1, 1)

(***************************************************************************)
(* The buffer pool, lines 137-145 and 513-554.                             *)
(***************************************************************************)
\* sizeof(kmh_buffer_pool[i].buffer), line 140
BUFFER_SIZE == (MAX_K + 5) * 4
\* where a serialized buffer lives: a pool buffer, HEAPBUF for a malloc'd one
\* with its int tag in front, CALLER for memory the caller made itself
HEAPBUF == MAX_SERIALIZE_BUFFERS
CALLER == MAX_SERIALIZE_BUFFERS + 1
NOBUF == -1

\* kmh_get_buffer, lines 513-535: the buffer returned (buf) and the pool's
\* markers after the call (busy).  A pool buffer that is claimed and found
\* too small is released again (line 523), so a request above BUFFER_SIZE
\* leaves every marker as it was.
kmh_get_buffer(needed_size, busyv, cas_fail, oom) ==
    LET free == {i \in Buffers : busyv[i] = 0 /\ i \notin cas_fail}
    IN  IF needed_size <= BUFFER_SIZE /\ free # {}
        THEN [buf |-> FirstOf(free), busy |-> [busyv EXCEPT ![FirstOf(free)] = 1]]
        ELSE IF oom THEN [buf |-> NOBUF, busy |-> busyv]
        ELSE [buf |-> HEAPBUF, busy |-> busyv]

\* a mutant of kmh_free_buffer: every marker is cleared
kmh_free_buffer_All(busyv, buf) == [i \in Buffers |-> 0]

\* kmh_free_buffer, lines 538-554: the pool's markers after the call
kmh_free_buffer(busyv, buf) ==
    IF buf \in Buffers THEN [busyv EXCEPT ![buf] = 0] ELSE busyv

\* lines 549-553: how many blocks kmh_free_buffer passes to free.  buf is not
\* a pool buffer's address, so it is heap_buf + sizeof(int) of line 534 and
\* the int in front of it is the 1 of line 533
kmh_free_buffer_frees(buf) ==
    IF buf = NOBUF \/ buf \in Buffers THEN 0 ELSE 1

(***************************************************************************)
(* The codec, lines 501-510 and 556-699.  A buffer's content is the        *)
(* sequence of its bytes: the byte at offset o is bytes[o + 1].  memcpy of *)
(* a uint32_t writes its four bytes in the byte order of the machine,      *)
(* taken little-endian here.                                               *)
(***************************************************************************)
\* int32_encode_direct, lines 502-505
int32_encode_direct(value) ==
    <<value % 256, (value \div 256) % 256, (value \div 65536) % 256,
      (value \div 16777216) % 256>>

\* a mutant of int32_decode_direct: the four bytes are read in the other order
int32_decode_direct_Swapped(bytes, pos) ==
    bytes[pos + 4] + 256 * bytes[pos + 3] + 65536 * bytes[pos + 2]
        + 16777216 * bytes[pos + 1]

\* int32_decode_direct, lines 507-510, at byte offset pos
int32_decode_direct(bytes, pos) ==
    bytes[pos + 1] + 256 * bytes[pos + 2] + 65536 * bytes[pos + 3]
        + 16777216 * bytes[pos + 4]

\* sizeof(kvalue_minhash_t), lines 123-129: four uint32_t and one pointer
SizeofStruct(ptr_size) == 4 * 4 + ptr_size

\* the bytes of a pointer whose value is addr = <<low word, high word>>
PointerBytes(addr, ptr_size) ==
    IF ptr_size = 4 THEN int32_encode_direct(addr[1])
    ELSE int32_encode_direct(addr[1]) \o int32_encode_direct(addr[2])

RECURSIVE HashBytes(_, _, _)
HashBytes(hashes, i, count) ==
    IF i >= count THEN << >>
    ELSE int32_encode_direct(hashes[i]) \o HashBytes(hashes, i + 1, count)

NoBlob == [buf |-> NOBUF]

\* kmh_serialize, lines 557-580: the buffer returned with its length and
\* content (blob) and the buffer pool's markers after the call (busy).  base
\* is the address of the buffer kmh_get_buffer returns.  The struct is
\* copied whole, its pointer field then set to buf + struct_size, and the
\* hash array follows the struct.
kmh_serialize(s, ptr_size, busyv, cas_fail, oom, base) ==
    LET struct_size == SizeofStruct(ptr_size)
        hash_size == s.count * 4
        total_size == struct_size + hash_size
        got == kmh_get_buffer(total_size, busyv, cas_fail, oom)
    IN  [busy |-> got.busy,
         blob |->
           IF got.buf = NOBUF THEN NoBlob
           ELSE [buf |-> got.buf,
              size |-> total_size,
              bytes |-> int32_encode_direct(s.k) \o int32_encode_direct(s.count)
                        \o int32_encode_direct(s.space_size)
                        \o int32_encode_direct(s.seed)
                        \o PointerBytes(<<base[1] + struct_size, base[2]>>, ptr_size)
                        \o HashBytes(s.hashes, 0, s.count),
              of |-> s]]

\* kmh_deserialize, lines 617-642
kmh_deserialize(b, ptr_size, used, cas_fail, oom) ==
    LET struct_size == SizeofStruct(ptr_size)
    IN  IF b.size < struct_size THEN [p |-> NULL, used |-> used]
        ELSE LET k == int32_decode_direct(b.bytes, 0)
                 count == int32_decode_direct(b.bytes, 4)
                 space_size == int32_decode_direct(b.bytes, 8)
                 seed == int32_decode_direct(b.bytes, 12)
             IN  IF count > k \/ k > MAX_K * 10 \/ b.size < struct_size + count * 4
                 THEN [p |-> NULL, used |-> used]
                 ELSE LET made == kmh_init(k, space_size, seed, used, cas_fail, oom)
                      IN  IF IsNull(made.p) THEN made
                          ELSE [made EXCEPT !.p.count = count,
                                            !.p.hashes = [i \in 0 .. (count - 1) |->
                                                int32_decode_direct(b.bytes,
                                                                    struct_size + 4 * i)]]

\* kmh_cardinality_from_serialized, lines 674-699.  The four bytes at offset
\* 16 are read whatever buf_size is; beyond is what a read past the end of
\* the blob finds there.  The result is <<value, bytes read past the end>>.
kmh_cardinality_from_serialized(b, beyond) ==
    IF b.size < 4 * 4 THEN <<MinusOne, FALSE>>
    ELSE LET k == int32_decode_direct(b.bytes, 0)
             count == int32_decode_direct(b.bytes, 4)
             space_size == int32_decode_direct(b.bytes, 8)
             pos == 4 * 4
             inside == pos + 4 <= b.size
             delta == IF inside THEN int32_decode_direct(b.bytes, pos) ELSE beyond
         IN  IF count = 0 THEN <<Double(0, 1), FALSE>>
             ELSE IF count < k THEN <<Double(count, 1), FALSE>>
             ELSE <<Double(space_size * (k - 1), delta + 1), ~inside>>

\* a thread outside kmh_init and kmh_get_buffer: pc is its place in the call,
\* i the loop index, k and size the call's argument; buf is the buffer
\* pointer the thread holds and live the number of blocks it has from malloc
\* and has not passed to free
Idle == [pc |-> "idle", i |-> 0, k |-> 0, size |-> 0, buf |-> NOBUF, live |-> 0]

(***************************************************************************)
(* The state after program start: the static pools are zeroed, the caller  *)
(* holds nothing.                                                          *)
(***************************************************************************)
Init ==
    /\ sizeof_ptr \in {4, 8}
    /\ in_use = [i \in Slots |-> 0]
    /\ busy = [i \in Buffers |-> 0]
    /\ kmh = [reg \in Regs |-> NULL]
    /\ seen = [reg \in Regs |-> {}]
    /\ blob = NoBlob
    /\ ret = NoRet
    /\ thread = [reg \in Regs |-> Idle]

(***************************************************************************)
(* One action per call of the library.  reg, x, y, dst name the caller's   *)
(* pointers; a caller overwrites no pointer it still owns.                 *)
(***************************************************************************)
KmhInit(reg, k, space_size, seed, cas_fail, oom) ==
    /\ kmh[reg] = NULL
    /\ LET r == kmh_init(k, space_size, seed, in_use, cas_fail, oom)
       IN  /\ kmh' = Store(kmh, reg, r.p)
           /\ in_use' = r.used
           /\ ret' = RetPtr("kmh_init", IsNull(r.p), r.p = NOMEM)
    /\ seen' = [seen EXCEPT ![reg] = {}]
    /\ UNCHANGED <<thread, sizeof_ptr, busy, blob>>

KmhFree(reg) ==
    /\ kmh[reg] # NULL
    /\ in_use' = kmh_free(in_use, kmh[reg])
    /\ kmh' = [kmh EXCEPT ![reg] = NULL]
    /\ seen' = [seen EXCEPT ![reg] = {}]
    /\ ret' = NoRet
    /\ UNCHANGED <<thread, sizeof_ptr, busy, blob>>

KmhAdd(reg, value) ==
    /\ kmh[reg] # NULL
    /\ kmh' = [kmh EXCEPT ![reg] = kmh_add(kmh[reg], value)]
    /\ seen' = [seen EXCEPT ![reg] =
                    @ \cup {HashOf(value, kmh[reg].seed, kmh[reg].space_size)}]
    /\ ret' = [NoRet EXCEPT !.op = "kmh_add",
                            !.added = HashSet(kmh'[reg]) \ HashSet(kmh[reg]),
                            !.dropped = HashSet(kmh[reg]) \ HashSet(kmh'[reg])]
    /\ UNCHANGED <<thread, sizeof_ptr, in_use, busy, blob>>

KmhCardinality(reg) ==
    /\ kmh[reg] # NULL
    /\ ret' = RetVal("kmh_cardinality", kmh_cardinality(kmh[reg]))
    /\ UNCHANGED <<thread, sizeof_ptr, in_use, busy, kmh, seen, blob>>

KmhMerge(x, y, dst, cas_fail, oom) ==
    /\ kmh[x] # NULL /\ kmh[y] # NULL /\ kmh[dst] = NULL
    /\ LET r == kmh_merge(kmh[x], kmh[y], in_use, cas_fail, oom)
       IN  /\ kmh' = Store(kmh, dst, r.p)
           /\ in_use' = r.used
           /\ ret' = [RetPtr("kmh_merge", IsNull(r.p), r.p = NOMEM)
                          EXCEPT !.args = <<x, y>>]
    /\ UNCHANGED <<thread, sizeof_ptr, busy, seen, blob>>

KmhDistance(x, y) ==
    /\ kmh[x] # NULL /\ kmh[y] # NULL
    /\ ret' = [RetVal("kmh_distance", kmh_distance(kmh[x], kmh[y]))
                  EXCEPT !.args = <<x, y>>]
    /\ UNCHANGED <<thread, sizeof_ptr, in_use, busy, kmh, seen, blob>>

KmhSerialize(reg, cas_fail, oom, base) ==
    /\ kmh[reg] # NULL /\ blob = NoBlob
    /\ LET r == kmh_serialize(kmh[reg], sizeof_ptr, busy, cas_fail, oom, base)
       IN  /\ blob' = r.blob
           /\ busy' = r.busy
           /\ ret' = RetPtr("kmh_serialize", r.blob = NoBlob, r.blob = NoBlob)
    /\ UNCHANGED <<thread, sizeof_ptr, in_use, kmh, seen>>

KmhFreeBuffer ==
    /\ blob # NoBlob /\ blob.buf # CALLER
    /\ busy' = kmh_free_buffer(busy, blob.buf)
    /\ blob' = NoBlob
    /\ ret' = NoRet
    /\ UNCHANGED <<thread, sizeof_ptr, in_use, kmh, seen>>

KmhDeserialize(dst, cas_fail, oom) ==
    /\ blob # NoBlob /\ kmh[dst] = NULL
    /\ LET r == kmh_deserialize(blob, sizeof_ptr, in_use, cas_fail, oom)
       IN  /\ kmh' = Store(kmh, dst, r.p)
           /\ in_use' = r.used
           /\ ret' = RetPtr("kmh_deserialize", IsNull(r.p), r.p = NOMEM)
    /\ UNCHANGED <<thread, sizeof_ptr, busy, seen, blob>>

KmhCardinalityFromSerialized(beyond) ==
    /\ blob # NoBlob
    /\ LET r == kmh_cardinality_from_serialized(blob, beyond)
       IN  ret' = [RetVal("kmh_cardinality_from_serialized", r[1]) EXCEPT !.oob = r[2]]
    /\ UNCHANGED <<thread, sizeof_ptr, in_use, busy, kmh, seen, blob>>

(***************************************************************************)
(* Spec: one sketch, created with any of the capacities, hash spaces and   *)
(* seeds, filled by kmh_add, queried and released.                         *)
(***************************************************************************)
Next ==
    \/ \E k \in Capacities, space_size \in Spaces, seed \in Seeds,
          cas_fail \in SUBSET Slots, oom \in BOOLEAN :
            KmhInit("a", k, space_size, seed, cas_fail, oom)
    \/ \E value \in Values : KmhAdd("a", value)
    \/ KmhCardinality("a")
    \/ KmhFree("a")

Spec == Init /\ [][Next]_vars

\* the n smallest members of a set of numbers (all of them if it has fewer)
Smallest(S, n) == {x \in S : Cardinality({y \in S : y < x}) < n}

StrictlyDescending(s) ==
    \A i \in 0 .. (s.count - 2) : s.hashes[i] > s.hashes[i + 1]

\* C1: after every kmh_add on a sketch made by kmh_init with k >= 1, the
\* stored hashes[0..count) are strictly descending, count <= k, and every
\* stored hash is below space_size.
C1_SortedBounded ==
    kmh["a"] # NULL =>
        /\ kmh["a"].count <= kmh["a"].k
        /\ DOMAIN kmh["a"].hashes = 0 .. (kmh["a"].count - 1)
        /\ StrictlyDescending(kmh["a"])
        /\ \A i \in 0 .. (kmh["a"].count - 1) :
               kmh["a"].hashes[i] >= 0 /\ kmh["a"].hashes[i] < kmh["a"].space_size

\* a full sketch of three hashes from which kmh_add has just dropped the
\* largest, the new hash landing between the two that stayed
C1_Witness ==
    /\ kmh["a"] # NULL /\ ret.op = "kmh_add"
    /\ kmh["a"].k = 3 /\ kmh["a"].count = 3
    /\ ret.dropped # {} /\ ret.added = {kmh["a"].hashes[1]}

\* C2: the stored hashes are exactly the min(k, d) smallest of the d distinct
\* hashes computed by the kmh_add calls so far; when count = k, hashes[0] is
\* the k-th smallest of them.
C2_KSmallest ==
    kmh["a"] # NULL =>
        /\ HashSet(kmh["a"]) = Smallest(seen["a"], kmh["a"].k)
        /\ kmh["a"].count = Min(kmh["a"].k, Cardinality(seen["a"]))
        /\ kmh["a"].count = kmh["a"].k =>
               Cardinality({h \in seen["a"] : h <= kmh["a"].hashes[0]}) = kmh["a"].k

\* a full sketch that has seen two hashes more than it holds, the last call
\* having replaced its largest
C2_Witness ==
    /\ kmh["a"] # NULL /\ ret.op = "kmh_add" /\ ret.dropped # {}
    /\ kmh["a"].count = kmh["a"].k /\ kmh["a"].k >= 2
    /\ Cardinality(seen["a"]) >= kmh["a"].k + 2

(***************************************************************************)
(* SpecCodec: two sketches filled by kmh_add, their merge, and the round   *)
(* trip of any of the three through kmh_serialize and kmh_deserialize.     *)
(* The caller leaves its sketches as they are while it holds a merge       *)
(* result or a buffer.                                                     *)
(***************************************************************************)
\* kmh_add draws its values from 0..NumCodecValues-1 here
NumCodecValues == 3
CodecValues == 0 .. (NumCodecValues - 1)
\* the capacities around the bound of kmh_deserialize, and two small ones
CodecCapacities == {1, 2, MAX_K * 10, MAX_K * 10 + 1}
\* the addresses a buffer can have, <<low word, high word>>
BufAddrs == {<<4096, 0>>, <<8192, 21845>>}
Quiet == kmh["r"] = NULL /\ blob = NoBlob

NextCodec ==
    \/ \E k \in CodecCapacities, oom \in BOOLEAN :
            Quiet /\ KmhInit("a", k, 8, 42, {}, oom)
    \/ \E oom \in BOOLEAN : Quiet /\ KmhInit("b", 2, 8, 42, {}, oom)
    \/ \E reg \in {"a", "b"}, value \in CodecValues : Quiet /\ KmhAdd(reg, value)
    \/ \E reg \in {"a", "b"} : Quiet /\ KmhFree(reg)
    \/ KmhFree("r")
    \/ \E oom \in BOOLEAN : KmhMerge("a", "b", "r", {}, oom)
    \/ \E reg \in Regs, cas_fail \in {{}, Buffers}, oom \in BOOLEAN, base \in BufAddrs :
            KmhSerialize(reg, cas_fail, oom, base)
    \/ \E oom \in BOOLEAN : KmhDeserialize("r", {}, oom)
    \/ KmhCardinalityFromSerialized(0)
    \/ KmhFreeBuffer

SpecCodec == Init /\ [][NextCodec]_vars

\* the sketch the buffer was serialized from, as it was then
Serialized == blob.of

SameSketch(p, s) ==
    /\ p.k = s.k /\ p.count = s.count
    /\ p.space_size = s.space_size /\ p.seed = s.seed
    /\ DOMAIN p.hashes = 0 .. (s.count - 1)
    /\ \A i \in 0 .. (s.count - 1) : p.hashes[i] = s.hashes[i]

\* C3, as claimed: kmh_deserialize of what kmh_serialize returned yields a
\* sketch with the same k, count, space_size, seed and hashes, for every
\* sketch built by kmh_add and kmh_merge (no malloc having failed).
C3_RoundTripAnyK ==
    (ret.op = "kmh_deserialize" /\ ~ret.nomem) =>
        /\ ~ret.null
        /\ SameSketch(kmh["r"], Serialized)

\* C3, amended: the same for every such sketch with k <= 10 * MAX_K; for a
\* larger k kmh_deserialize returns NULL.
C3_RoundTrip ==
    (ret.op = "kmh_deserialize" /\ ~ret.nomem) =>
        IF Serialized.k <= MAX_K * 10
        THEN ~ret.null /\ SameSketch(kmh["r"], Serialized)
        ELSE ret.null /\ kmh["r"] = NULL

\* a full sketch of two hashes has come back from its buffer
C3_Witness ==
    /\ ret.op = "kmh_deserialize" /\ ~ret.null
    /\ kmh["r"].k = 2 /\ kmh["r"].count = 2
    /\ SameSketch(kmh["r"], Serialized)

\* C4: kmh_cardinality_from_serialized of what kmh_serialize returned equals
\* kmh_cardinality of the sketch, full or not (the word it reads at byte
\* offset 16 of the buffer being hashes[0]).
C4_FastCardinality ==
    ret.op = "kmh_cardinality_from_serialized" =>
        DoubleEq(ret.val, kmh_cardinality(Serialized))

\* C5: kmh_serialize returns 16 + 4 * count bytes: k, count, space_size and
\* seed at offsets 0, 4, 8, 12 and hash i at offset 16 + 4 * i.
C5_BlobLayout ==
    (ret.op = "kmh_serialize" /\ ~ret.null) =>
        /\ blob.size = 16 + 4 * Serialized.count
        /\ Len(blob.bytes) = blob.size
        /\ int32_decode_direct(blob.bytes, 0) = Serialized.k
        /\ int32_decode_direct(blob.bytes, 4) = Serialized.count
        /\ int32_decode_direct(blob.bytes, 8) = Serialized.space_size
        /\ int32_decode_direct(blob.bytes, 12) = Serialized.seed
        /\ \A i \in 0 .. (Serialized.count - 1) :
               int32_decode_direct(blob.bytes, 16 + 4 * i) = Serialized.hashes[i]

(***************************************************************************)
(* SpecBlob: the caller hands kmh_deserialize and                          *)
(* kmh_cardinality_from_serialized a buffer of its own making: a header,   *)
(* words after it, cut to any length.                                      *)
(***************************************************************************)
\* the number of 4-byte words a caller's buffer holds after its 16-byte header
MaxBlobWords == 4
BlobCapacities == {1, 2, MAX_K * 10, MAX_K * 10 + 1}
\* what a read past the end of a buffer can find
BeyondWords == {0, 6}

RECURSIVE BlobWords(_)
BlobWords(i) ==
    IF i > MaxBlobWords THEN << >>
    ELSE int32_encode_direct(2 * (MaxBlobWords - i) + 1) \o BlobWords(i + 1)

CallerBlob(k, count, size) ==
    /\ blob = NoBlob
    /\ blob' = [buf |-> CALLER,
                size |-> size,
                bytes |-> SubSeq(int32_encode_direct(k) \o int32_encode_direct(count)
                                 \o int32_encode_direct(64) \o int32_encode_direct(42)
                                 \o BlobWords(1), 1, size)]
    /\ ret' = NoRet
    /\ UNCHANGED <<thread, sizeof_ptr, in_use, busy, kmh, seen>>

DropBlob ==
    /\ blob # NoBlob /\ blob.buf = CALLER
    /\ blob' = NoBlob
    /\ ret' = NoRet
    /\ UNCHANGED <<thread, sizeof_ptr, in_use, busy, kmh, seen>>

NextBlob ==
    \/ \E k \in BlobCapacities, count \in 0 .. MaxBlobWords,
          size \in 0 .. (16 + 4 * MaxBlobWords) : CallerBlob(k, count, size)
    \/ DropBlob
    \/ \E cas_fail \in {{}, Slots}, oom \in BOOLEAN : KmhDeserialize("r", cas_fail, oom)
    \/ \E beyond \in BeyondWords : KmhCardinalityFromSerialized(beyond)
    \/ KmhCardinality("r")
    \/ KmhFree("r")

SpecBlob == Init /\ [][NextBlob]_vars

BlobK == int32_decode_direct(blob.bytes, 0)
BlobCount == int32_decode_direct(blob.bytes, 4)

\* C6: kmh_deserialize returns NULL for every buffer shorter than 16 bytes,
\* with count > k, with k > 10 * MAX_K, or whose length is not 16 + 4 * count,
\* and a sketch only when none of these holds.
C6_DeserializeRejects ==
    (ret.op = "kmh_deserialize" /\ ~ret.nomem) =>
        (ret.null <=>
            \/ blob.size < 16
            \/ BlobCount > BlobK
            \/ BlobK > MAX_K * 10
            \/ blob.size # 16 + 4 * BlobCount)

\* C7: kmh_cardinality_from_serialized returns -1.0 for every buffer
\* shorter than 16 bytes, of a length other than 16 + 4 * count, or with
\* count > k; it reads no byte at or past the buffer's length; it returns a
\* non-negative value for every other buffer.
C7_FastCardinalityRejects ==
    ret.op = "kmh_cardinality_from_serialized" =>
        /\ ~ret.oob
        /\ IF \/ blob.size < 16
              \/ blob.size # 16 + 4 * BlobCount
              \/ BlobCount > BlobK
           THEN ret.val = MinusOne
           ELSE ret.val.num >= 0 /\ ret.val.den > 0

(***************************************************************************)
(* SpecMerge: two sketches, alike or differing in k, space_size or seed,   *)
(* filled by kmh_add, then merged and compared (each with the other and    *)
(* with itself).  The caller keeps both sketches for the whole run and     *)
(* leaves them as they are while it holds the merge result.                *)
(***************************************************************************)
\* kmh_add draws its values from 0..NumMergeValues-1 here
NumMergeValues == 3
MergeValues == 0 .. (NumMergeValues - 1)
MergeParams ==
    {<<k, 8, 42>> : k \in 1 .. MaxSmallK} \cup {<<2, 7, 42>>, <<2, 8, 43>>}

\* a is created first, with space_size 8 and seed 42; b with any of MergeParams
NextMerge ==
    \/ \E k \in 1 .. MaxSmallK : Quiet /\ KmhInit("a", k, 8, 42, {}, FALSE)
    \/ \E prm \in MergeParams :
            Quiet /\ kmh["a"] # NULL /\ KmhInit("b", prm[1], prm[2], prm[3], {}, FALSE)
    \/ \E reg \in {"a", "b"}, value \in MergeValues : Quiet /\ KmhAdd(reg, value)
    \/ KmhFree("r")
    \/ \E x \in {"a", "b"}, y \in {"a", "b"}, cas_fail \in {{}, Slots}, oom \in BOOLEAN :
            KmhMerge(x, y, "r", cas_fail, oom)
    \/ \E x \in {"a", "b"}, y \in {"a", "b"} : KmhDistance(x, y)

SpecMerge == Init /\ [][NextMerge]_vars

Differ(a, b) == a.k # b.k \/ a.space_size # b.space_size \/ a.seed # b.seed

\* C8: for compatible a and b, kmh_merge returns a fresh sketch with their
\* k, space_size and seed whose hashes are the min(k, |U|) smallest of
\* U = hashes of a or b, strictly descending, and leaves a and b as they were.
C8_Merge ==
    [][(ret'.op = "kmh_merge" /\ ~ret'.null) =>
        LET a == kmh[ret'.args[1]]
            b == kmh[ret'.args[2]]
            r == kmh'["r"]
            U == HashSet(a) \cup HashSet(b)
        IN  /\ r.k = a.k /\ r.space_size = a.space_size /\ r.seed = a.seed
            /\ r.count = Min(a.k, Cardinality(U))
            /\ DOMAIN r.hashes = 0 .. (r.count - 1)
            /\ HashSet(r) = Smallest(U, a.k)
            /\ StrictlyDescending(r)
            /\ r.at \in Slots => in_use[r.at] = 0 /\ in_use'[r.at] = 1
            /\ \A i \in Slots : i # r.at => in_use'[i] = in_use[i]
            /\ kmh'["a"] = kmh["a"] /\ kmh'["b"] = kmh["b"]]_vars

\* a full result of two hashes, from two sketches that share a hash, each
\* having one the other lacks, with more than two between them
C8_Witness ==
    /\ ret.op = "kmh_merge" /\ ~ret.null /\ ret.args = <<"a", "b">>
    /\ kmh["r"].count = 2 /\ kmh["r"].k = 2
    /\ HashSet(kmh["a"]) \cap HashSet(kmh["b"]) # {}
    /\ HashSet(kmh["a"]) \ HashSet(kmh["b"]) # {}
    /\ HashSet(kmh["b"]) \ HashSet(kmh["a"]) # {}
    /\ Cardinality(HashSet(kmh["a"]) \cup HashSet(kmh["b"])) > 2

\* C9: kmh_merge returns NULL and kmh_distance -1.0 exactly when the inputs
\* differ in k, space_size or seed (no malloc having failed); the failed
\* call changes neither input and leaves no pool slot claimed.
C9_Incompatible ==
    [][/\ ret'.op = "kmh_merge" =>
            LET a == kmh[ret'.args[1]]
                b == kmh[ret'.args[2]]
            IN  /\ Differ(a, b) => ret'.null /\ ~ret'.nomem
                /\ (~Differ(a, b) /\ ~ret'.nomem) => ~ret'.null
                /\ ret'.null => kmh' = kmh /\ in_use' = in_use
       /\ ret'.op = "kmh_distance" =>
            LET a == kmh[ret'.args[1]]
                b == kmh[ret'.args[2]]
            IN  /\ (ret'.val = MinusOne) <=> Differ(a, b)
                /\ kmh' = kmh /\ in_use' = in_use]_vars

\* kmh_merge has just refused two sketches that differ in their seed only,
\* both holding hashes
C9_Witness ==
    /\ ret.op = "kmh_merge" /\ ret.null /\ ~ret.nomem
    /\ kmh["a"] # NULL /\ kmh["b"] # NULL
    /\ kmh["a"].k = kmh["b"].k /\ kmh["a"].space_size = kmh["b"].space_size
    /\ kmh["a"].seed # kmh["b"].seed
    /\ kmh["a"].count > 0 /\ kmh["b"].count > 0
    /\ kmh["r"] = NULL /\ \A i \in Slots : in_use[i] = 1 <=> i \in {kmh["a"].at, kmh["b"].at}

(***************************************************************************)
(* SpecPool: three threads, each owning one pointer, call kmh_init and     *)
(* kmh_free concurrently.  kmh_init is taken one shared-memory access at a *)
(* time: each compare-exchange of the loop of lines 150-161 is a step, and *)
(* so are the writes to the claimed slot and the malloc of the fallback.   *)
(* kmh_free's only shared access is the atomic_store of line 184.          *)
(***************************************************************************)
PoolCapacities == {1, MAX_K + 1, Pow2(30)}

\* line 164: malloc(sizeof(kvalue_minhash_t) + k * sizeof(uint32_t)), computed
\* in size_t, which is as wide as a pointer; the result is the number of
\* 4-byte hashes the block has room for after the struct.  With a 4-byte
\* size_t the byte count wraps at 2^32, that is the word count at 2^30.
malloc_room(k, ptr_size) ==
    LET header == SizeofStruct(ptr_size) \div 4
        words == IF ptr_size = 4 THEN (header + k) % Pow2(30) ELSE header + k
    IN  IF words >= header THEN words - header ELSE 0

\* line 147: thread t enters kmh_init(k, 8, 42)
InitEnter(t, k) ==
    /\ thread[t].pc = "idle" /\ kmh[t] = NULL
    /\ thread' = [thread EXCEPT ![t] =
                    [Idle EXCEPT !.pc = IF k <= MAX_K THEN "cas" ELSE "malloc", !.k = k]]
    /\ UNCHANGED <<sizeof_ptr, in_use, busy, kmh, seen, blob, ret>>

\* line 151, at slot i of the loop
InitCas(t, spurious) ==
    /\ thread[t].pc = "cas"
    /\ LET i == thread[t].i
       IN  IF atomic_compare_exchange_weak(in_use[i], 0, spurious)
           THEN /\ in_use' = [in_use EXCEPT ![i] = 1]
                /\ thread' = [thread EXCEPT ![t].pc = "claimed"]
           ELSE /\ in_use' = in_use
                /\ thread' = [thread EXCEPT ![t] =
                                IF i + 1 < MAX_INSTANCES
                                THEN [@ EXCEPT !.i = i + 1]
                                ELSE [@ EXCEPT !.pc = "malloc"]]
    /\ UNCHANGED <<sizeof_ptr, busy, kmh, seen, blob, ret>>

\* lines 153-158: the thread fills in the slot it claimed and returns it
InitClaimed(t) ==
    /\ thread[t].pc = "claimed"
    /\ kmh' = Store(kmh, t, NewSketch(thread[t].i, thread[t].k, 8, 42))
    /\ thread' = [thread EXCEPT ![t] = Idle]
    /\ ret' = RetPtr("kmh_init", FALSE, FALSE)
    /\ UNCHANGED <<sizeof_ptr, in_use, busy, seen, blob>>

\* lines 164-174: the fallback
InitMalloc(t, oom) ==
    /\ thread[t].pc = "malloc"
    /\ kmh' = Store(kmh, t, IF oom THEN NOMEM ELSE NewSketch(HEAP, thread[t].k, 8, 42))
    /\ thread' = [thread EXCEPT ![t] = Idle]
    /\ ret' = [RetPtr("kmh_init", oom, oom)
                  EXCEPT !.room = IF oom THEN 0 ELSE malloc_room(thread[t].k, sizeof_ptr)]
    /\ UNCHANGED <<sizeof_ptr, in_use, busy, seen, blob>>

NextPool ==
    \/ \E t \in Regs, k \in PoolCapacities : InitEnter(t, k)
    \/ \E t \in Regs, spurious \in BOOLEAN : InitCas(t, spurious)
    \/ \E t \in Regs : InitClaimed(t)
    \/ \E t \in Regs, oom \in BOOLEAN : InitMalloc(t, oom)
    \/ \E t \in Regs : thread[t].pc = "idle" /\ KmhFree(t)

SpecPool == Init /\ [][NextPool]_vars

\* the pool slots thread t holds: the one its compare-exchange claimed, from
\* that step on, until its kmh_free stores 0
Held(t) ==
    IF thread[t].pc = "claimed" THEN {thread[t].i}
    ELSE IF kmh[t] # NULL /\ kmh[t].at \in Slots THEN {kmh[t].at}
    ELSE {}

\* C10: under any interleaving of kmh_init and kmh_free by several threads,
\* no two threads hold the same pool slot, and a slot that is held is
\* marked in use.
C10_Exclusive ==
    \A t \in Regs :
        /\ \A u \in Regs \ {t} : Held(t) \cap Held(u) = {}
        /\ \A i \in Held(t) : in_use[i] = 1

\* thread a holds slot 1 and thread b slot 0 (so a once lost slot 0, or b
\* took it over after a free), while thread r is in kmh_init about to try
\* slot 0
C10_Witness ==
    /\ Held("a") = {1} /\ Held("b") = {0}
    /\ kmh["a"] # NULL /\ thread["b"].pc = "claimed"
    /\ thread["r"].pc = "cas" /\ thread["r"].i = 0

\* C11: a kmh_init call makes at most one pass over the slots (each
\* compare-exchange moves it to the next slot, to the claimed slot or to
\* malloc), returns the slot it claimed, and otherwise returns a heap block
\* with room for exactly k hashes (or NULL if malloc fails); with k > MAX_K
\* it changes no in_use marker.
C11_InitOnePass ==
    [][\A t \in Regs : thread'[t] # thread[t] =>
        /\ thread[t].pc = "cas" =>
            \/ /\ thread'[t].pc = "claimed" /\ thread'[t].i = thread[t].i
               /\ in_use[thread[t].i] = 0 /\ in_use'[thread[t].i] = 1
            \/ /\ thread'[t].pc = "cas" /\ thread'[t].i = thread[t].i + 1
               /\ thread'[t].i < MAX_INSTANCES
            \/ thread'[t].pc = "malloc" /\ thread[t].i = MAX_INSTANCES - 1
        /\ thread[t].pc = "claimed" =>
            /\ thread'[t].pc = "idle" /\ thread[t].k <= MAX_K
            /\ kmh'[t] # NULL /\ kmh'[t].at = thread[t].i /\ kmh'[t].k = thread[t].k
        /\ thread[t].pc = "malloc" =>
            /\ thread'[t].pc = "idle"
            /\ \/ ret'.nomem /\ kmh'[t] = NULL
               \/ /\ kmh'[t] # NULL /\ kmh'[t].at = HEAP /\ kmh'[t].k = thread[t].k
                  /\ ret'.room = thread[t].k
        /\ (thread[t].pc # "idle" /\ thread[t].k > MAX_K) => in_use' = in_use]_vars

(***************************************************************************)
(* SpecBuf: three threads call kmh_get_buffer and kmh_free_buffer          *)
(* concurrently, each holding at most one buffer.  kmh_get_buffer is taken *)
(* one shared-memory access at a time: the compare-exchange of line 517,   *)
(* then the size test with the atomic_store of line 523, then the malloc.  *)
(***************************************************************************)
BufferSizes == {4 * 4, BUFFER_SIZE, BUFFER_SIZE + 1}

\* line 513: thread t enters kmh_get_buffer(needed_size)
BufEnter(t, needed_size) ==
    /\ thread[t].pc = "idle" /\ thread[t].buf = NOBUF
    /\ thread' = [thread EXCEPT ![t] = [Idle EXCEPT !.pc = "bcas", !.size = needed_size]]
    /\ UNCHANGED <<sizeof_ptr, in_use, busy, kmh, seen, blob, ret>>

\* what the loop of lines 515-526 does after slot i: the next slot or malloc
BufAdvance(th) ==
    IF th.i + 1 < MAX_SERIALIZE_BUFFERS
    THEN [th EXCEPT !.pc = "bcas", !.i = th.i + 1]
    ELSE [th EXCEPT !.pc = "bmalloc"]

\* line 517, at buffer i of the loop
BufCas(t, spurious) ==
    /\ thread[t].pc = "bcas"
    /\ LET i == thread[t].i
       IN  IF atomic_compare_exchange_weak(busy[i], 0, spurious)
           THEN /\ busy' = [busy EXCEPT ![i] = 1]
                /\ thread' = [thread EXCEPT ![t].pc = "bsize"]
           ELSE /\ busy' = busy
                /\ thread' = [thread EXCEPT ![t] = BufAdvance(@)]
    /\ UNCHANGED <<sizeof_ptr, in_use, kmh, seen, blob, ret>>

\* lines 519-524: the buffer is returned, or is too small and given back
BufSize(t) ==
    /\ thread[t].pc = "bsize"
    /\ IF thread[t].size <= BUFFER_SIZE
       THEN /\ thread' = [thread EXCEPT ![t] = [Idle EXCEPT !.buf = thread[t].i]]
            /\ ret' = [RetPtr("kmh_get_buffer", FALSE, FALSE) EXCEPT !.args = <<t, thread[t].i>>]
            /\ busy' = busy
       ELSE /\ thread' = [thread EXCEPT ![t] = BufAdvance(@)]
            /\ busy' = [busy EXCEPT ![thread[t].i] = 0]
            /\ ret' = ret
    /\ UNCHANGED <<sizeof_ptr, in_use, kmh, seen, blob>>

\* lines 529-534: the fallback, with the int 1 in front of the buffer
BufMalloc(t, oom) ==
    /\ thread[t].pc = "bmalloc"
    /\ thread' = [thread EXCEPT ![t] =
                    IF oom THEN Idle ELSE [Idle EXCEPT !.buf = HEAPBUF, !.live = 1]]
    /\ ret' = [RetPtr("kmh_get_buffer", oom, oom)
                  EXCEPT !.args = <<t, IF oom THEN NOBUF ELSE HEAPBUF>>]
    /\ UNCHANGED <<sizeof_ptr, in_use, busy, kmh, seen, blob>>

\* kmh_free_buffer(buf) by the thread that holds buf
BufFree(t) ==
    /\ thread[t].pc = "idle" /\ thread[t].buf # NOBUF
    /\ busy' = kmh_free_buffer(busy, thread[t].buf)
    /\ thread' = [thread EXCEPT ![t] =
                    [Idle EXCEPT !.live = thread[t].live - kmh_free_buffer_frees(thread[t].buf)]]
    /\ ret' = [NoRet EXCEPT !.op = "kmh_free_buffer", !.args = <<t, thread[t].buf>>]
    /\ UNCHANGED <<sizeof_ptr, in_use, kmh, seen, blob>>

NextBuf ==
    \/ \E t \in Regs, needed_size \in BufferSizes : BufEnter(t, needed_size)
    \/ \E t \in Regs, spurious \in BOOLEAN : BufCas(t, spurious)
    \/ \E t \in Regs : BufSize(t)
    \/ \E t \in Regs, oom \in BOOLEAN : BufMalloc(t, oom)
    \/ \E t \in Regs : BufFree(t)

SpecBuf == Init /\ [][NextBuf]_vars

\* C12: when a thread releases the buffer kmh_get_buffer gave it, a pool
\* buffer has its own busy marker cleared, no other marker changes and
\* nothing is freed; a heap buffer is freed once (the thread's live block
\* count goes from 1 to 0) and no marker changes.  No other thread's buffer
\* or block count is touched, and no other thread holds the released buffer.
C12_FreeBufferRoutes ==
    [][\A t \in Regs : (thread[t].buf # NOBUF /\ thread'[t].buf = NOBUF) =>
        LET b == thread[t].buf
        IN  /\ b \in Buffers =>
                /\ busy[b] = 1 /\ busy' = [busy EXCEPT ![b] = 0]
                /\ thread[t].live = 0 /\ thread'[t].live = 0
                /\ \A u \in Regs \ {t} : thread[u].buf # b
            /\ b = HEAPBUF =>
                /\ busy' = busy
                /\ thread[t].live = 1 /\ thread'[t].live = 0
            /\ \A u \in Regs \ {t} : thread'[u] = thread[u]]_vars

\* thread a has just released a heap buffer while thread b holds pool buffer
\* 0 and thread r, asking for more than a pool buffer holds, has claimed
\* pool buffer 1 and not yet given it back
C12_Witness ==
    /\ ret.op = "kmh_free_buffer" /\ ret.args = <<"a", HEAPBUF>>
    /\ thread["a"].buf = NOBUF /\ thread["a"].live = 0
    /\ thread["b"].buf = 0 /\ busy[0] = 1
    /\ thread["r"].pc = "bsize" /\ thread["r"].i = 1 /\ thread["r"].size > BUFFER_SIZE
    /\ busy[1] = 1

\* C13: a kmh_add whose value hashes to a hash the sketch already holds
\* leaves count and every stored hash as they were, whether the sketch is
\* full or not.
C13_DuplicateNoOp ==
    [][\A value \in Values :
        (/\ kmh["a"] # NULL
         /\ HashOf(value, kmh["a"].seed, kmh["a"].space_size) \in HashSet(kmh["a"])
         /\ KmhAdd("a", value))
        => kmh'["a"] = kmh["a"]]_vars

\* a full sketch of three hashes that holds every hash it was ever given,
\* after a kmh_add that put nothing in: the call's hash was one of the three
C13_Witness ==
    /\ kmh["a"] # NULL /\ ret.op = "kmh_add" /\ ret.added = {}
    /\ kmh["a"].k = 3 /\ kmh["a"].count = 3
    /\ seen["a"] = HashSet(kmh["a"])

\* the uint32_t values at the top of the range, and zero
TopWords == {U32(0, 0), U32(W16 - 1, W16 - 3), U32(W16 - 1, W16 - 2), U32(W16 - 1, W16 - 1)}

\* C14: kmh_cardinality returns 0.0 for an empty sketch, count for one that
\* is not full, and space_size * (k - 1) / (hashes[0] + 1) for a full one;
\* the divisor is never zero: a stored hash is below space_size, so the
\* uint32_t sum hashes[0] + 1 does not wrap, whatever uint32_t space_size is.
C14_Cardinality ==
    /\ kmh["a"] # NULL =>
        LET s == kmh["a"]
        IN  /\ s.count = s.k => s.hashes[0] < s.space_size /\ s.hashes[0] + 1 > 0
            /\ ret.op = "kmh_cardinality" =>
                /\ s.count = 0 => ret.val = Double(0, 1)
                /\ (0 < s.count /\ s.count < s.k) => ret.val = Double(s.count, 1)
                /\ s.count = s.k =>
                    /\ ret.val.den # 0
                    /\ DoubleEq(ret.val, Double(s.space_size * (s.k - 1), s.hashes[0] + 1))
    /\ \A space_size \in TopWords, hash \in TopWords :
            U32Less(hash, space_size) => U32Add(hash, ToU32(1)) # ToU32(0)

\* kmh_cardinality of a full sketch of three hashes whose largest is not 0
C14_Witness ==
    /\ kmh["a"] # NULL /\ ret.op = "kmh_cardinality"
    /\ kmh["a"].k = 3 /\ kmh["a"].count = 3 /\ kmh["a"].hashes[0] > 2
    /\ ~DoubleEq(ret.val, Double(kmh["a"].count, 1))

\* C15: kmh_distance of a non-empty sketch with itself is 0.0 (every
\* comparison is a match), and kmh_distance of two compatible empty
\* sketches is 1.0.
C15_SelfAndEmptyDistance ==
    ret.op = "kmh_distance" =>
        LET a == kmh[ret.args[1]]
            b == kmh[ret.args[2]]
        IN  /\ (ret.args[1] = ret.args[2] /\ a.count > 0) =>
                ret.val.num = 0 /\ ret.val.den = a.count
            /\ (~Differ(a, b) /\ a.count = 0 /\ b.count = 0) => ret.val = Double(1, 1)

\* kmh_distance of a full sketch of three hashes with itself
C15_Witness ==
    /\ ret.op = "kmh_distance" /\ ret.args = <<"a", "a">>
    /\ kmh["a"].count = 3 /\ kmh["a"].k = 3
    /\ kmh["b"] # NULL /\ kmh["b"].count > 0

(***************************************************************************)
(* The SQLite binding, src/unnamed/part_000.  Each function of the binding *)
(* is one action, its body a chain of the library's calls over a record st *)
(* of what the function has in hand: the pools' markers (used, busy), the  *)
(* sketches it holds (live, a set of ids given out in order, next), the    *)
(* heap buffers it holds (hbuf), whether it has released or used something *)
(* it did not hold (bad), and its result (out, val, blob).  A sketch        *)
(* pointer is a handle: what it points to (p) and the id it was given.     *)
(***************************************************************************)
DEFAULT_K == 400
DEFAULT_SEED == 42
\* DEFAULT_SPACE_SIZE (line 9) is 0xFFFFFFFF; hashes are kept as small
\* integers here, and the binding's sketches get the largest hash space of
\* Spaces instead.  No branch of the binding reads space_size.
BindingSpace == CHOOSE m \in Spaces : \A n \in Spaces : n <= m

\* a local variable: x is computed once, and F is what the function does
\* with it
Then(x, F(_)) == CHOOSE r \in {F(y) : y \in {x}} : TRUE

NoHandle == [p |-> NULL, id |-> 0]
\* the handle kept in the aggregate context has id 1
CtxHandle(ctx) == IF ctx = NULL THEN NoHandle ELSE [p |-> ctx, id |-> 1]

Start(usedv, busyv, ctx) ==
    [used |-> usedv, busy |-> busyv, live |-> IF ctx = NULL THEN {} ELSE {1},
     next |-> 2, hbuf |-> 0, bad |-> FALSE,
     out |-> "none", val |-> Double(0, 1), blob |-> NoBlob]

\* a call of kmh_init, kmh_deserialize or kmh_merge has returned ptr
Got(st, ptr) ==
    Then(ptr, LAMBDA r :
        IF IsNull(r.p) THEN [st |-> [st EXCEPT !.used = r.used], h |-> NoHandle]
        ELSE [st |-> [st EXCEPT !.used = r.used, !.live = @ \cup {st.next},
                                !.next = @ + 1],
              h |-> [p |-> r.p, id |-> st.next]])

\* the function reads or writes the sketch behind h
Use(st, h) == IF h.id \in st.live THEN st ELSE [st EXCEPT !.bad = TRUE]

\* kmh_free(h)
Release(st, h) ==
    IF IsNull(h.p) THEN st
    ELSE [st EXCEPT !.used = kmh_free(st.used, h.p),
                    !.live = @ \ {h.id},
                    !.bad = @ \/ h.id \notin st.live]

\* sqlite3_result_null, sqlite3_result_error, sqlite3_result_error_nomem,
\* sqlite3_result_double
Result(st, out) == [st EXCEPT !.out = out]
ResultDouble(st, val) == [st EXCEPT !.out = "double", !.val = val]

\* an argument of a function: an sqlite3_value
NullValue == [type |-> "null", int |-> 0, blob |-> NoBlob]
IntegerValue(value) == [type |-> "integer", int |-> value, blob |-> NoBlob]
BlobValue(b) == [type |-> "blob", int |-> 0, blob |-> b]

\* kmh_from_blob, lines 13-26; cas_fail and oom are those of its kmh_init
kmh_from_blob(st, val, ptr_size, cas_fail, oom) ==
    IF val.type # "blob" THEN [st |-> st, h |-> NoHandle]
    ELSE IF val.blob.size < 16 THEN [st |-> st, h |-> NoHandle]
    ELSE Got(st, kmh_deserialize(val.blob, ptr_size, st.used, cas_fail, oom))

\* a mutant of kmh_to_blob: the buffer is not given back
kmh_to_blob_NoFree(st, h, ptr_size, cas_fail, oom) ==
    Then(kmh_serialize(h.p, ptr_size, st.busy, cas_fail, oom, <<4096, 0>>), LAMBDA r :
        IF r.blob # NoBlob
        THEN [Use(st, h) EXCEPT !.busy = r.busy,
                                !.hbuf = @ + (IF r.blob.buf = HEAPBUF THEN 1 ELSE 0),
                                !.out = "blob", !.blob = [r.blob EXCEPT !.buf = CALLER]]
        ELSE [Use(st, h) EXCEPT !.busy = r.busy, !.out = "null"])

\* kmh_to_blob, lines 29-39: sqlite3_result_blob copies the buffer
\* (SQLITE_TRANSIENT) before kmh_free_buffer releases it
kmh_to_blob(st, h, ptr_size, cas_fail, oom) ==
    Then(kmh_serialize(h.p, ptr_size, st.busy, cas_fail, oom, <<4096, 0>>), LAMBDA r :
        IF r.blob # NoBlob
        THEN [Use(st, h) EXCEPT !.busy = kmh_free_buffer(r.busy, r.blob.buf),
                                !.hbuf = @ + (IF r.blob.buf = HEAPBUF THEN 1 ELSE 0)
                                           - kmh_free_buffer_frees(r.blob.buf),
                                !.out = "blob", !.blob = [r.blob EXCEPT !.buf = CALLER]]
        ELSE [Use(st, h) EXCEPT !.busy = r.busy, !.out = "null"])

\* the loop of lines 55-61: every integer argument is added, the others are
\* passed over
RECURSIVE AddArgs(_, _, _)
AddArgs(sk, args, i) ==
    IF i > Len(args) THEN sk
    ELSE AddArgs(IF args[i].type = "integer" THEN kmh_add(sk, args[i].int) ELSE sk,
                 args, i + 1)

\* In the functions below cas_fail is the set of pool slots whose
\* compare-exchange fails, oom the set of the function's allocations at
\* which malloc returns NULL (1, 2, 3: its sketches in order; 4: the buffer
\* of kmh_to_blob), bcas the set of pool buffers whose compare-exchange fails.

\* kmh_create_func, lines 42-65
kmh_create_func(st, args, ptr_size, cas_fail, oom, bcas) ==
    IF Len(args) = 0 THEN Result(st, "null")
    ELSE Then(Got(st, kmh_init(DEFAULT_K, BindingSpace, DEFAULT_SEED,
                               st.used, cas_fail, 1 \in oom)), LAMBDA g :
            IF g.h = NoHandle THEN Result(g.st, "nomem")
            ELSE Then([g.h EXCEPT !.p = AddArgs(g.h.p, args, 1)], LAMBDA h :
                 Then(kmh_to_blob(Use(g.st, h), h, ptr_size, bcas, 4 \in oom),
                      LAMBDA st1 : Release(st1, h))))

\* kmh_add_func, lines 68-88
kmh_add_func(st, args, ptr_size, cas_fail, oom, bcas) ==
    IF Len(args) # 2 THEN Result(st, "error")
    ELSE Then(kmh_from_blob(st, args[1], ptr_size, cas_fail, 1 \in oom), LAMBDA g :
            IF g.h = NoHandle THEN Result(g.st, "null")
            ELSE Then([g.h EXCEPT !.p = AddArgs(g.h.p, <<args[2]>>, 1)], LAMBDA h :
                 Then(kmh_to_blob(Use(g.st, h), h, ptr_size, bcas, 4 \in oom),
                      LAMBDA st1 : Release(st1, h))))

\* lines 97-110 and 146-159, shared by kmh_merge_func and
\* kmh_merge_cardinality_func: both blobs are decoded and merged, and the two
\* decoded sketches released.  The result is st with the merged handle h,
\* or with out = "null" when the function has returned.
MergeArgs(st, args, ptr_size, cas_fail, oom) ==
    Then(kmh_from_blob(st, args[1], ptr_size, cas_fail, 1 \in oom), LAMBDA g1 :
    Then(kmh_from_blob(g1.st, args[2], ptr_size, cas_fail, 2 \in oom), LAMBDA g2 :
        IF g1.h = NoHandle \/ g2.h = NoHandle
        THEN [st |-> Result(Release(Release(g2.st, g1.h), g2.h), "null"), h |-> NoHandle]
        ELSE Then(Got(Use(Use(g2.st, g1.h), g2.h),
                      kmh_merge(g1.h.p, g2.h.p, g2.st.used, cas_fail, 3 \in oom)),
                  LAMBDA g3 : [st |-> Release(Release(g3.st, g1.h), g2.h), h |-> g3.h])))

\* kmh_merge_func, lines 91-118
kmh_merge_func(st, args, ptr_size, cas_fail, oom, bcas) ==
    IF Len(args) # 2 THEN Result(st, "error")
    ELSE Then(MergeArgs(st, args, ptr_size, cas_fail, oom), LAMBDA m :
            IF m.st.out = "null" THEN m.st
            ELSE IF m.h # NoHandle
            THEN Then(kmh_to_blob(m.st, m.h, ptr_size, bcas, 4 \in oom),
                      LAMBDA st1 : Release(st1, m.h))
            ELSE Result(m.st, "null"))

\* kmh_cardinality_func, lines 121-137
kmh_cardinality_func(st, args, ptr_size, cas_fail, oom) ==
    IF Len(args) # 1 THEN Result(st, "error")
    ELSE Then(kmh_from_blob(st, args[1], ptr_size, cas_fail, 1 \in oom), LAMBDA g :
            IF g.h = NoHandle THEN Result(g.st, "null")
            ELSE Release(ResultDouble(Use(g.st, g.h), kmh_cardinality(g.h.p)), g.h))

\* kmh_merge_cardinality_func, lines 140-168
kmh_merge_cardinality_func(st, args, ptr_size, cas_fail, oom) ==
    IF Len(args) # 2 THEN Result(st, "error")
    ELSE Then(MergeArgs(st, args, ptr_size, cas_fail, oom), LAMBDA m :
            IF m.st.out = "null" THEN m.st
            ELSE IF m.h # NoHandle
            THEN Release(ResultDouble(Use(m.st, m.h), kmh_cardinality(m.h.p)), m.h)
            ELSE Result(m.st, "null"))

\* The aggregate functions.  ctx is the handle in agg_ctx->kmh (NoHandle for
\* NULL), no_ctx says that sqlite3_aggregate_context returns NULL; the result
\* is st and the handle agg_ctx->kmh holds when the function returns.

\* kmh_group_create_step, lines 176-198
kmh_group_create_step(st, ctx, args, no_ctx, cas_fail, oom) ==
    IF no_ctx THEN [st |-> Result(st, "nomem"), h |-> ctx]
    ELSE Then(IF ctx = NoHandle
              THEN Got(st, kmh_init(DEFAULT_K, BindingSpace, DEFAULT_SEED,
                                    st.used, cas_fail, 1 \in oom))
              ELSE [st |-> st, h |-> ctx], LAMBDA g :
            IF g.h = NoHandle THEN [st |-> Result(g.st, "nomem"), h |-> NoHandle]
            ELSE IF Len(args) > 0 /\ args[1].type = "integer"
            THEN [st |-> Use(g.st, g.h),
                  h |-> [g.h EXCEPT !.p = kmh_add(g.h.p, args[1].int)]]
            ELSE g)

\* kmh_group_create_final, lines 200-210, and kmh_group_merge_final, lines
\* 238-248, which has the same body
kmh_group_create_final(st, ctx, no_ctx, ptr_size, bcas, oom) ==
    IF no_ctx \/ ctx = NoHandle THEN Result(st, "null")
    ELSE Then(kmh_to_blob(st, ctx, ptr_size, bcas, 4 \in oom),
              LAMBDA st1 : Release(st1, ctx))

\* kmh_group_merge_step, lines 213-236
kmh_group_merge_step(st, ctx, args, no_ctx, ptr_size, cas_fail, oom) ==
    IF no_ctx THEN [st |-> Result(st, "nomem"), h |-> ctx]
    ELSE IF ~(Len(args) > 0 /\ args[1].type = "blob") THEN [st |-> st, h |-> ctx]
    ELSE Then(kmh_from_blob(st, args[1], ptr_size, cas_fail, 1 \in oom), LAMBDA g :
            IF g.h = NoHandle THEN [st |-> g.st, h |-> ctx]
            ELSE IF ctx = NoHandle THEN g
            ELSE Then(Got(Use(Use(g.st, ctx), g.h),
                          kmh_merge(ctx.p, g.h.p, g.st.used, cas_fail, 2 \in oom)),
                      LAMBDA m : [st |-> Release(Release(m.st, ctx), g.h), h |-> m.h]))

\* kmh_group_merge_cardinality_final, lines 251-262
kmh_group_merge_cardinality_final(st, ctx, no_ctx) ==
    IF no_ctx \/ ctx = NoHandle THEN Result(st, "null")
    ELSE Release(ResultDouble(Use(st, ctx), kmh_cardinality(ctx.p)), ctx)

(***************************************************************************)
(* SpecBinding: SQLite calls the scalar functions with arguments of every  *)
(* type and runs an aggregate, whose context is the pointer a;             *)
(* thread[c].pc is the aggregate that context c belongs to.  The result a  *)
(* function hands to SQLite is kept in ret by its kind and its double.     *)
(***************************************************************************)
\* the integer arguments are 0..NumBindingValues-1
NumBindingValues == 2
Contexts == {"a"}

\* a sketch with the hashes of the values 0..n-1
RECURSIVE Filled(_, _)
Filled(sk, n) == IF n = 0 THEN sk ELSE kmh_add(Filled(sk, n - 1), n - 1)

\* the blob kmh_to_blob makes of such a sketch, cut to size bytes
ArgBlob(k, n, size) ==
    Then(kmh_serialize(Filled(NewSketch(HEAP, k, BindingSpace, DEFAULT_SEED), n),
                       sizeof_ptr, [i \in Buffers |-> 0], {}, FALSE, <<4096, 0>>).blob,
         LAMBDA b : [buf |-> CALLER, size |-> Min(size, b.size),
                     bytes |-> SubSeq(b.bytes, 1, Min(size, b.size)), of |-> b.of])

\* blobs of sketches with the binding's k (empty and not), a smaller k and
\* one above MAX_K, and an empty one cut to 16 bytes
ArgBlobs ==
    {ArgBlob(DEFAULT_K, 0, BUFFER_SIZE), ArgBlob(DEFAULT_K, NumBindingValues, BUFFER_SIZE),
     ArgBlob(2, NumBindingValues, BUFFER_SIZE), ArgBlob(MAX_K + 1, 1, BUFFER_SIZE),
     ArgBlob(DEFAULT_K, 0, 16)}

ArgValues ==
    {NullValue} \cup {IntegerValue(v) : v \in 0 .. (NumBindingValues - 1)}
        \cup {BlobValue(b) : b \in ArgBlobs}

\* the second argument of the functions of two: one value of each type, and
\* blobs that can and cannot be merged with the binding's own
SecondValues ==
    {NullValue, IntegerValue(0), BlobValue(ArgBlob(DEFAULT_K, 1, BUFFER_SIZE)),
     BlobValue(ArgBlob(2, 1, BUFFER_SIZE))}

\* what can fail during one function: every compare-exchange on the
\* instance pool (cas), on the buffer pool (bcas), and, with both pools
\* failing, one malloc (oom)
Envs ==
    {[cas |-> c, bcas |-> bc, oom |-> {}] : c \in {{}, Slots}, bc \in {{}, Buffers}}
        \cup {[cas |-> Slots, bcas |-> Buffers, oom |-> {n}] : n \in 1 .. 4}

\* what a function of the binding leaves in ret; args is the kind of its
\* result and the number of sketches it obtained
BindingRet(op, st, kept) ==
    [NoRet EXCEPT !.op = op, !.val = st.val, !.null = st.out = "null",
                  !.nomem = st.out = "nomem", !.args = <<st.out, st.next - 2>>,
                  !.bad = st.bad,
                  !.leak = Cardinality(st.live \ {kept.id}) + st.hbuf]

\* a scalar function has returned with st
Scalar(op, st) ==
    /\ in_use' = st.used
    /\ busy' = st.busy
    /\ ret' = BindingRet(op, st, NoHandle)
    /\ UNCHANGED <<sizeof_ptr, kmh, seen, blob, thread>>

KmhCreateFunc(args, env) ==
    \E st \in {kmh_create_func(Start(in_use, busy, NULL), args, sizeof_ptr,
                    env.cas, env.oom, env.bcas)} :
        Scalar("kmh_create_func", st)

KmhAddFunc(args, env) ==
    \E st \in {kmh_add_func(Start(in_use, busy, NULL), args, sizeof_ptr,
                    env.cas, env.oom, env.bcas)} :
        Scalar("kmh_add_func", st)

KmhMergeFunc(args, env) ==
    \E st \in {kmh_merge_func(Start(in_use, busy, NULL), args, sizeof_ptr,
                    env.cas, env.oom, env.bcas)} :
        Scalar("kmh_merge_func", st)

KmhCardinalityFunc(args, env) ==
    \E st \in {kmh_cardinality_func(Start(in_use, busy, NULL), args, sizeof_ptr,
                    env.cas, env.oom)} :
        Scalar("kmh_cardinality_func", st)

KmhMergeCardinalityFunc(args, env) ==
    \E st \in {kmh_merge_cardinality_func(Start(in_use, busy, NULL), args, sizeof_ptr,
                    env.cas, env.oom)} :
        Scalar("kmh_merge_cardinality_func", st)

\* a step function of the aggregate kind has returned r for context c
GroupStep(c, kind, op, no_ctx, r) ==
    /\ thread[c].pc \in {"idle", kind}
    /\ kmh' = [kmh EXCEPT ![c] = r.h.p]
    /\ thread' = [thread EXCEPT ![c].pc = IF no_ctx THEN @ ELSE kind]
    /\ in_use' = r.st.used
    /\ busy' = r.st.busy
    /\ ret' = BindingRet(op, r.st, r.h)
    /\ UNCHANGED <<sizeof_ptr, seen, blob>>

\* a final function has returned st for context c, and SQLite drops the context
GroupFinal(c, op, st) ==
    /\ kmh' = [kmh EXCEPT ![c] = NULL]
    /\ thread' = [thread EXCEPT ![c] = Idle]
    /\ in_use' = st.used
    /\ busy' = st.busy
    /\ ret' = BindingRet(op, st, NoHandle)
    /\ UNCHANGED <<sizeof_ptr, seen, blob>>

KmhGroupCreateStep(c, val, no_ctx, env) ==
    \E r \in {kmh_group_create_step(Start(in_use, busy, kmh[c]), CtxHandle(kmh[c]),
                                     <<val>>, no_ctx, env.cas, env.oom)} :
        GroupStep(c, "group_create", "kmh_group_create_step", no_ctx, r)

\* without a step before it (no rows), the final function finds no context
KmhGroupCreateFinal(c, env) ==
    /\ thread[c].pc \in {"idle", "group_create"}
    /\ \E st \in {kmh_group_create_final(Start(in_use, busy, kmh[c]), CtxHandle(kmh[c]),
                                           thread[c].pc = "idle", sizeof_ptr,
                                           env.bcas, env.oom)} :
            GroupFinal(c, "kmh_group_create_final", st)

KmhGroupMergeStep(c, val, no_ctx, env) ==
    \E r \in {kmh_group_merge_step(Start(in_use, busy, kmh[c]), CtxHandle(kmh[c]),
                                    <<val>>, no_ctx, sizeof_ptr, env.cas, env.oom)} :
        GroupStep(c, "group_merge", "kmh_group_merge_step", no_ctx, r)

KmhGroupMergeFinal(c, env) ==
    /\ thread[c].pc \in {"idle", "group_merge"}
    /\ \E st \in {kmh_group_create_final(Start(in_use, busy, kmh[c]), CtxHandle(kmh[c]),
                                           thread[c].pc = "idle", sizeof_ptr,
                                           env.bcas, env.oom)} :
            GroupFinal(c, "kmh_group_merge_final", st)

KmhGroupMergeCardinalityFinal(c) ==
    /\ thread[c].pc \in {"idle", "group_merge"}
    /\ \E st \in {kmh_group_merge_cardinality_final(Start(in_use, busy, kmh[c]),
                                                      CtxHandle(kmh[c]),
                                                      thread[c].pc = "idle")} :
            GroupFinal(c, "kmh_group_merge_cardinality_final", st)

NextBinding ==
    \/ \E n \in 0 .. 2, v \in ArgValues, w \in SecondValues, env \in Envs :
            KmhCreateFunc(SubSeq(<<v, w>>, 1, n), env)
    \/ \E v \in ArgValues, w \in SecondValues, env \in Envs : KmhAddFunc(<<v, w>>, env)
    \/ \E v \in ArgValues, w \in SecondValues, env \in Envs : KmhMergeFunc(<<v, w>>, env)
    \/ \E v \in ArgValues, env \in Envs : KmhCardinalityFunc(<<v>>, env)
    \/ \E v \in ArgValues, w \in SecondValues, env \in Envs :
            KmhMergeCardinalityFunc(<<v, w>>, env)
    \/ \E c \in Contexts, val \in ArgValues, no_ctx \in BOOLEAN, env \in Envs :
            KmhGroupCreateStep(c, val, no_ctx, env)
    \/ \E c \in Contexts, env \in Envs : KmhGroupCreateFinal(c, env)
    \/ \E c \in Contexts, val \in ArgValues, no_ctx \in BOOLEAN, env \in Envs :
            KmhGroupMergeStep(c, val, no_ctx, env)
    \/ \E c \in Contexts, env \in Envs : KmhGroupMergeFinal(c, env)
    \/ \E c \in Contexts : KmhGroupMergeCardinalityFinal(c)

SpecBinding == Init /\ [][NextBinding]_vars

\* the pool slots bound to the sketches the aggregate contexts hold
ContextSlots == {kmh[c].at : c \in {d \in Contexts : kmh[d] # NULL}} \cap Slots

\* C16: every function of the binding releases each sketch and buffer it
\* obtained exactly once and uses none after its release (bad is never
\* set), and returns holding nothing but the sketch in its aggregate
\* context: no handle is left over, the pool slots in use are those of the
\* contexts' sketches, no pool buffer is busy.
C16_BindingReleases ==
    /\ ~ret.bad
    /\ ret.leak = 0
    /\ \A i \in Slots : in_use[i] = 1 <=> i \in ContextSlots
    /\ \A i \in Buffers : busy[i] = 0

\* kmh_group_merge_step has decoded its blob (the one sketch it obtained),
\* kmh_merge with the context's sketch has returned NULL, and both sketches
\* are released: the context holds none
C16_Witness ==
    /\ ret.op = "kmh_group_merge_step" /\ ret.args = <<"none", 1>>
    /\ thread["a"].pc = "group_merge" /\ kmh["a"] = NULL
    /\ \A i \in Slots : in_use[i] = 0

\* the sketch kmh_add makes of sk and the hashes H, taken in some order
RECURSIVE BuiltFrom(_, _)
BuiltFrom(sk, H) ==
    IF H = {} THEN sk
    ELSE LET h == CHOOSE x \in H : TRUE
         IN  BuiltFrom(kmh_add_hash(sk, h), H \ {h})

\* C17: the merge of the sketch built from the values A and the sketch
\* built from the values B has the count and hashes of the sketch built by
\* adding every value of A and B; merge(a, b) equals merge(b, a), and
\* merge(a, a) equals a.
C17_MergeIsUnion ==
    (ret.op = "kmh_merge" /\ ~ret.null) =>
        LET a == kmh[ret.args[1]]
            b == kmh[ret.args[2]]
            r == kmh["r"]
            union == BuiltFrom(NewSketch(HEAP, a.k, a.space_size, a.seed),
                               seen[ret.args[1]] \cup seen[ret.args[2]])
            back == kmh_merge(b, a, in_use, Slots, FALSE).p
        IN  /\ r.count = union.count /\ r.hashes = union.hashes
            /\ r.count = back.count /\ r.hashes = back.hashes
            /\ ret.args[1] = ret.args[2] => r.count = a.count /\ r.hashes = a.hashes

\* the merge of two full sketches of two hashes that do not hold the same
\* two, a having dropped a hash it was given
C17_Witness ==
    /\ ret.op = "kmh_merge" /\ ~ret.null /\ ret.args = <<"a", "b">>
    /\ kmh["a"].k = 2 /\ kmh["a"].count = 2 /\ kmh["b"].count = 2
    /\ Cardinality(seen["a"]) > 2
    /\ HashSet(kmh["b"]) # HashSet(kmh["a"])

\* C18: a kmh_add leaves count as it is or adds one to it; a full sketch
\* stays full, and its hashes[0] stays or gets strictly smaller, never larger.
C18_AddMonotone ==
    [][(ret'.op = "kmh_add" /\ kmh["a"] # NULL /\ kmh'["a"] # NULL) =>
        /\ kmh'["a"].k = kmh["a"].k
        /\ kmh'["a"].count \in {kmh["a"].count, kmh["a"].count + 1}
        /\ kmh["a"].count = kmh["a"].k =>
            /\ kmh'["a"].count = kmh["a"].k
            /\ kmh'["a"].hashes[0] <= kmh["a"].hashes[0]]_vars

\* a full sketch of two hashes whose largest the last kmh_add has replaced
\* by a smaller one
C18_Witness ==
    /\ kmh["a"] # NULL /\ ret.op = "kmh_add"
    /\ kmh["a"].k = 2 /\ kmh["a"].count = 2
    /\ ret.dropped # {} /\ \A h \in ret.dropped : kmh["a"].hashes[0] < h

(***************************************************************************)
(* SpecHandles: three handles a, b and r, each obtained from kmh_init,     *)
(* kmh_merge or kmh_deserialize in any order, with the pool free, partly   *)
(* failing or failing, and released by kmh_free; the buffers decoded are   *)
(* made by kmh_serialize or by the caller.                                 *)
(***************************************************************************)
HandleCapacities == {1, MAX_K + 1}

NextHandles ==
    \/ \E reg \in Regs, k \in HandleCapacities, seed \in Seeds,
          cas_fail \in {{}, Slots}, oom \in BOOLEAN :
            KmhInit(reg, k, BindingSpace, seed, cas_fail, oom)
    \/ \E x \in Regs, y \in Regs, dst \in Regs, cas_fail \in {{}, Slots},
          oom \in BOOLEAN : KmhMerge(x, y, dst, cas_fail, oom)
    \/ \E reg \in Regs : KmhSerialize(reg, {}, FALSE, <<4096, 0>>)
    \/ \E k \in {1, MAX_K * 10 + 1} : CallerBlob(k, 0, 16)
    \/ KmhFreeBuffer
    \/ DropBlob
    \/ \E dst \in Regs, cas_fail \in {{}, Slots}, oom \in BOOLEAN :
            KmhDeserialize(dst, cas_fail, oom)
    \/ \E reg \in Regs : KmhFree(reg)

SpecHandles == Init /\ [][NextHandles]_vars

\* the pool slots bound to the handles the caller holds
BoundSlots == {kmh[reg].at : reg \in {x \in Regs : kmh[x] # NULL}} \cap Slots

====
